---- MODULE Spec2Model ----
(***************************************************************************)
(* Model of sd-builder's gulpfile (src/gulpfile.babel.js): the registered  *)
(* tasks, the parallel/sequential groups built from them, the leaf task    *)
(* bodies as far as they decide success, inputs and output paths, and the  *)
(* watch bindings installed by setupWatchers.                              *)
(*                                                                         *)
(* The gulpfile only calls the orchestrator (proGulp.parallel,             *)
(* proGulp.sequence) and the watcher (gulp.watch); their behaviour is      *)
(* taken from spec.md sections 4.3 and 4.4.                                *)
(***************************************************************************)
EXTENDS Integers, Sequences, FiniteSets, TLC

VARIABLES
    invocation,      \* root task named on the command line
    NODE_ENV,        \* process.env.NODE_ENV, defaulted (line 20)
    appAssets,       \* relative paths of the files under app/assets
    deps,            \* current content of deps.json
    depsAtLoad,      \* content of deps.json parsed when the module was loaded (line 39)
    st,              \* st[c][n]: status of task n in execution context c
    error,           \* error[c][n]: leaf tasks named by the failure of n in c
    depsRead,        \* depsRead[c][t]: manifest the run of t in c works from
    mochaError,      \* mochaError[c]: the test runner emitted "error" in c's last test run
    console,         \* messages printed with console.log
    written,         \* <<leaf task, output path>> pairs written under build/
    devServerStarts, \* number of browserSync(...) calls
    watching,        \* gulp.watch bindings have been created
    wstate,          \* wstate[b]: state of watch binding b
    pending,         \* pending[b]: a change arrived while b was running
    dirty,           \* dirty[b]: a change of b's pattern no run has started after
    changes          \* number of file edits so far

vars == <<invocation, NODE_ENV, appAssets, deps, depsAtLoad, st, error, depsRead,
          mochaError, console, written, devServerStarts, watching,
          wstate, pending, dirty, changes>>

(***************************************************************************)
(* Bounds                                                                  *)
(***************************************************************************)
MaxChanges == 2

(***************************************************************************)
(* Task registry                                                           *)
(***************************************************************************)
BuildLeaves == {"buildMainHtml", "buildAllScripts", "buildAppAssets",
                "buildDevAppConfig", "buildVendorStyles", "buildVendorFonts"}

Leaves == BuildLeaves \cup {"test", "setupDevServer", "setupWatchers"}

\* build declared with proGulp.sequence instead of proGulp.parallel
build_sequence ==
    [kind |-> "sequence",
     members |-> <<"buildMainHtml", "buildAllScripts", "buildAppAssets",
                   "buildDevAppConfig", "buildVendorStyles", "buildVendorFonts">>]

build == [kind |-> "parallel",
          members |-> <<"buildMainHtml", "buildAllScripts", "buildAppAssets",
                        "buildDevAppConfig", "buildVendorStyles", "buildVendorFonts">>]

\* dev with setupDevServer listed before test
dev_reordered ==
    [kind |-> "sequence",
     members |-> <<"build", "setupDevServer", "test", "setupWatchers">>]

\* dev declared with proGulp.parallel instead of proGulp.sequence
dev_parallel ==
    [kind |-> "parallel",
     members |-> <<"build", "test", "setupDevServer", "setupWatchers">>]

dev == [kind |-> "sequence",
        members |-> <<"build", "test", "setupDevServer", "setupWatchers">>]

watchAppScripts == [kind |-> "parallel", members |-> <<"buildAllScripts", "test">>]

watchDeps == [kind |-> "parallel",
              members |-> <<"buildAllScripts", "buildVendorFonts",
                            "buildVendorStyles", "test">>]

Groups == {"build", "dev", "watchAppScripts", "watchDeps"}

Nodes == Leaves \cup Groups

Plan(n) ==
    CASE n = "build" -> build
      [] n = "dev" -> dev
      [] n = "watchAppScripts" -> watchAppScripts
      [] n = "watchDeps" -> watchDeps

Members(n) == {Plan(n).members[i] : i \in DOMAIN Plan(n).members}

Invocations == {"build", "test", "dev"}

(***************************************************************************)
(* Watch bindings created by setupWatchers, and execution contexts: the    *)
(* run requested on the command line and one per watch binding.            *)
(***************************************************************************)
Bindings == {"mainHtml", "dotEnv", "appScripts", "appAssetFiles",
             "testScripts", "depsJson"}

Bound(b) ==
    CASE b = "mainHtml" -> "buildMainHtml"
      [] b = "dotEnv" -> "buildDevAppConfig"
      [] b = "appScripts" -> "watchAppScripts"
      [] b = "appAssetFiles" -> "buildAppAssets"
      [] b = "testScripts" -> "test"
      [] b = "depsJson" -> "watchDeps"

Contexts == {"cli"} \cup Bindings

Settled == {"ok", "failed"}

(***************************************************************************)
(* Files: paths are sequences of segments                                  *)
(***************************************************************************)
AssetChoices ==
    { {},
      {<<"images", "logo.png">>},
      {<<"images", "logo.png">>, <<"css", "vendor.css">>},
      {<<"fonts", "fa.woff">>, <<"js", "app.js">>} }

DepsA ==
    [js |-> {"react"},
     css |-> {<<"node_modules", "bootstrap", "bootstrap.css">>},
     fonts |-> {<<"node_modules", "font-awesome", "fa.woff">>}]

DepsB ==
    [js |-> {"react", "ramda"},
     css |-> {},
     fonts |-> {<<"node_modules", "font-awesome", "fa.woff">>,
                <<"node_modules", "bootstrap", "glyphicons.woff">>}]

DepsChoices == {DepsA, DepsB}

NoManifest == [js |-> {}, css |-> {}, fonts |-> {}]

Basename(p) == p[Len(p)]

ManifestConsumers == {"buildAllScripts", "buildVendorStyles", "buildVendorFonts"}

\* The manifest a run of t works from, fixed when the task function is called.
ManifestUsed(t) == IF t = "buildAllScripts" THEN depsAtLoad ELSE deps

ConfigOutcomes == {"written", "readThrows", "parseThrows", "writeThrows"}

\* Paths under build/ that a successful run of t in context c writes.
OutputPaths(c, t) ==
    CASE t = "buildMainHtml" -> {<<"index.html">>}
      [] t = "buildAllScripts" ->
            {<<"_assets", "js", "app.js">>, <<"_assets", "js", "app.js.map">>,
             <<"_assets", "js", "vendor.js">>, <<"_assets", "js", "vendor.js.map">>}
      [] t = "buildAppAssets" -> {<<"_assets">> \o p : p \in appAssets}
      [] t = "buildDevAppConfig" -> {<<"app-config.js">>}
      [] t = "buildVendorStyles" ->
            IF depsRead[c][t].css = {} THEN {}
            ELSE {<<"_assets", "css", "vendor.css">>}
      [] t = "buildVendorFonts" ->
            {<<"_assets", "fonts", Basename(f)>> : f \in depsRead[c][t].fonts}
      [] OTHER -> {}

(***************************************************************************)
(* Initial state: the gulpfile has been loaded, nothing has run            *)
(***************************************************************************)
Loaded ==
    /\ depsAtLoad = deps
    /\ st = [c \in Contexts |-> [n \in Nodes |-> "idle"]]
    /\ error = [c \in Contexts |-> [n \in Nodes |-> {}]]
    /\ depsRead = [c \in Contexts |-> [t \in ManifestConsumers |-> NoManifest]]
    /\ mochaError = [c \in Contexts |-> FALSE]
    /\ console = {}
    /\ written = {}
    /\ devServerStarts = 0
    /\ watching = FALSE
    /\ wstate = [b \in Bindings |-> "idle"]
    /\ pending = [b \in Bindings |-> FALSE]
    /\ dirty = [b \in Bindings |-> FALSE]
    /\ changes = 0

\* gulp dev with NODE_ENV unset, in a project with one static asset
Init ==
    /\ invocation = "dev"
    /\ NODE_ENV = "development"
    /\ appAssets = {<<"images", "logo.png">>}
    /\ deps = DepsA
    /\ Loaded

\* gulp build or gulp test, in any of the projects considered
InitBuild ==
    /\ invocation \in {"build", "test"}
    /\ NODE_ENV \in {"development", "production"}
    /\ appAssets \in AssetChoices
    /\ deps \in DepsChoices
    /\ Loaded

(***************************************************************************)
(* Executor                                                                *)
(***************************************************************************)
RECURSIVE StartSet(_)
\* The tasks that begin running when n is started.
StartSet(n) ==
    {n} \cup
    IF n \in Leaves THEN {}
    ELSE IF Plan(n).kind = "parallel"
         THEN UNION {StartSet(m) : m \in Members(n)}
         ELSE StartSet(Plan(n).members[1])

Begin(c, n) ==
    /\ st' = [st EXCEPT ![c] =
                [m \in Nodes |-> IF m \in StartSet(n) THEN "running" ELSE @[m]]]
    /\ depsRead' = [depsRead EXCEPT ![c] =
                [t \in ManifestConsumers |->
                    IF t \in StartSet(n) THEN ManifestUsed(t) ELSE @[t]]]

\* gulp <invocation>
gulpStart ==
    /\ st["cli"][invocation] = "idle"
    /\ Begin("cli", invocation)
    /\ UNCHANGED <<invocation, NODE_ENV, appAssets, deps, depsAtLoad, error,
                   mochaError, console, written, devServerStarts,
                   watching, wstate, pending, dirty, changes>>

\* A parallel group that reports as soon as one member has failed
ParallelReady_failfast(c, n) ==
    \/ \A m \in Members(n) : st[c][m] \in Settled
    \/ \E m \in Members(n) : st[c][m] = "failed"

\* A parallel group reports once its members allow it.
ParallelReady(c, n) == \A m \in Members(n) : st[c][m] \in Settled

ParallelError(c, n) == UNION {error[c][m] : m \in Members(n)}

SettleParallel(c, n) ==
    /\ Plan(n).kind = "parallel"
    /\ st[c][n] = "running"
    /\ ParallelReady(c, n)
    /\ LET e == ParallelError(c, n) IN
        /\ st' = [st EXCEPT ![c][n] = IF e = {} THEN "ok" ELSE "failed"]
        /\ error' = [error EXCEPT ![c][n] = e]
    /\ UNCHANGED <<invocation, NODE_ENV, appAssets, deps, depsAtLoad, depsRead,
                   mochaError, console, written, devServerStarts,
                   watching, wstate, pending, dirty, changes>>

\* Index of the first member of sequence n that has not succeeded, 0 if none.
Current(c, n) ==
    LET ms == Plan(n).members
        open == {i \in DOMAIN ms : st[c][ms[i]] # "ok"}
    IN IF open = {} THEN 0 ELSE CHOOSE i \in open : \A j \in open : i <= j

AdvanceSequence(c, n) ==
    /\ Plan(n).kind = "sequence"
    /\ st[c][n] = "running"
    /\ LET i == Current(c, n)
           m == Plan(n).members[i]
       IN
        \/ /\ i = 0
           /\ st' = [st EXCEPT ![c][n] = "ok"]
           /\ UNCHANGED <<error, depsRead>>
        \/ /\ i # 0
           /\ st[c][m] = "failed"
           /\ st' = [st EXCEPT ![c][n] = "failed"]
           /\ error' = [error EXCEPT ![c][n] = error[c][m]]
           /\ UNCHANGED depsRead
        \/ /\ i # 0
           /\ st[c][m] = "idle"
           /\ Begin(c, m)
           /\ UNCHANGED error
    /\ UNCHANGED <<invocation, NODE_ENV, appAssets, deps, depsAtLoad,
                   mochaError, console, written, devServerStarts,
                   watching, wstate, pending, dirty, changes>>

\* Completion of leaf task t in context c.
LeafSettles(c, t, outcome, paths) ==
    /\ st' = [st EXCEPT ![c][t] = outcome]
    /\ error' = [error EXCEPT ![c][t] = IF outcome = "failed" THEN {t} ELSE {}]
    /\ written' = IF outcome = "ok" THEN written \cup {<<t, p>> : p \in paths}
                  ELSE written

(***************************************************************************)
(* Leaf tasks                                                              *)
(***************************************************************************)
StreamTask(c, t) ==
    /\ st[c][t] = "running"
    /\ \E outcome \in Settled : LeafSettles(c, t, outcome, OutputPaths(c, t))
    /\ UNCHANGED <<invocation, NODE_ENV, appAssets, deps, depsAtLoad, depsRead,
                   mochaError, console, devServerStarts,
                   watching, wstate, pending, dirty, changes>>

buildMainHtml(c) == StreamTask(c, "buildMainHtml")

buildAllScripts(c) == StreamTask(c, "buildAllScripts")

buildAppAssets(c) == StreamTask(c, "buildAppAssets")

buildVendorStyles(c) == StreamTask(c, "buildVendorStyles")

buildVendorFonts(c) == StreamTask(c, "buildVendorFonts")

\* buildDevAppConfig without the try/catch around its file operations
buildDevAppConfig_uncaught(c) ==
    /\ st[c]["buildDevAppConfig"] = "running"
    /\ \/ /\ NODE_ENV # "development"
          /\ LeafSettles(c, "buildDevAppConfig", "ok", {})
       \/ /\ NODE_ENV = "development"
          /\ \E io \in ConfigOutcomes :
                IF io = "written"
                THEN LeafSettles(c, "buildDevAppConfig", "ok",
                                 OutputPaths(c, "buildDevAppConfig"))
                ELSE LeafSettles(c, "buildDevAppConfig", "failed", {})
    /\ UNCHANGED <<invocation, NODE_ENV, appAssets, deps, depsAtLoad, depsRead,
                   mochaError, console, devServerStarts, watching, wstate,
                   pending, dirty, changes>>

buildDevAppConfig(c) ==
    /\ st[c]["buildDevAppConfig"] = "running"
    /\ \/ /\ NODE_ENV # "development"
          /\ LeafSettles(c, "buildDevAppConfig", "ok", {})
          /\ UNCHANGED console
       \/ /\ NODE_ENV = "development"
          /\ \E io \in ConfigOutcomes :
                IF io = "written"
                THEN /\ LeafSettles(c, "buildDevAppConfig", "ok",
                                    OutputPaths(c, "buildDevAppConfig"))
                     /\ UNCHANGED console
                ELSE /\ LeafSettles(c, "buildDevAppConfig", "ok", {})
                     /\ console' = console \cup {"Error building app config"}
    /\ UNCHANGED <<invocation, NODE_ENV, appAssets, deps, depsAtLoad, depsRead,
                   mochaError, devServerStarts, watching, wstate, pending,
                   dirty, changes>>

\* The stream's "error" handler emits "end": the task ends either way.
test(c) ==
    /\ st[c]["test"] = "running"
    /\ \E mocha \in {"pass", "error"} :
          /\ mochaError' = [mochaError EXCEPT ![c] = (mocha = "error")]
          /\ LeafSettles(c, "test", "ok", {})
    /\ UNCHANGED <<invocation, NODE_ENV, appAssets, deps, depsAtLoad, depsRead,
                   console, devServerStarts, watching, wstate,
                   pending, dirty, changes>>

setupDevServer(c) ==
    /\ st[c]["setupDevServer"] = "running"
    /\ devServerStarts' = devServerStarts + 1
    /\ LeafSettles(c, "setupDevServer", "ok", {})
    /\ UNCHANGED <<invocation, NODE_ENV, appAssets, deps, depsAtLoad, depsRead,
                   mochaError, console, watching, wstate, pending,
                   dirty, changes>>

setupWatchers(c) ==
    /\ st[c]["setupWatchers"] = "running"
    /\ watching' = TRUE
    /\ LeafSettles(c, "setupWatchers", "ok", {})
    /\ UNCHANGED <<invocation, NODE_ENV, appAssets, deps, depsAtLoad, depsRead,
                   mochaError, console, devServerStarts, wstate,
                   pending, dirty, changes>>

(***************************************************************************)
(* Watch coordinator                                                       *)
(***************************************************************************)
\* A coordinator that drops the changes arriving while the task runs
OnChange_dropped(ws, pend) ==
    CASE ws = "idle" -> [wstate |-> "triggered", pending |-> pend]
      [] ws = "triggered" -> [wstate |-> "triggered", pending |-> pend]
      [] ws = "running" -> [wstate |-> "running", pending |-> pend]

\* State and pending flag of a binding after a change event.
OnChange(ws, pend) ==
    CASE ws = "idle" -> [wstate |-> "triggered", pending |-> pend]
      [] ws = "triggered" -> [wstate |-> "triggered", pending |-> pend]
      [] ws = "running" -> [wstate |-> "running", pending |-> TRUE]

\* State of a binding when its run has completed.
OnRunDone(pend) == IF pend THEN "triggered" ELSE "idle"

\* A file matching b's pattern is edited.
FileChange(b) ==
    /\ changes < MaxChanges
    /\ watching \/ (b = "depsJson" /\ st["cli"][invocation] = "running")
    /\ changes' = changes + 1
    /\ IF b = "depsJson"
       THEN \E d \in DepsChoices \ {deps} : deps' = d
       ELSE UNCHANGED deps
    /\ IF watching
       THEN /\ wstate' = [wstate EXCEPT ![b] = OnChange(wstate[b], pending[b]).wstate]
            /\ pending' = [pending EXCEPT ![b] = OnChange(wstate[b], pending[b]).pending]
            /\ dirty' = [dirty EXCEPT ![b] = TRUE]
       ELSE UNCHANGED <<wstate, pending, dirty>>
    /\ UNCHANGED <<invocation, NODE_ENV, appAssets, depsAtLoad, st, error,
                   depsRead, mochaError, console, written,
                   devServerStarts, watching>>

\* The quiet window of b has passed: the bound task is run.
Debounce(b) ==
    /\ wstate[b] = "triggered"
    /\ wstate' = [wstate EXCEPT ![b] = "running"]
    /\ pending' = [pending EXCEPT ![b] = FALSE]
    /\ dirty' = [dirty EXCEPT ![b] = FALSE]
    /\ Begin(b, Bound(b))
    /\ UNCHANGED <<invocation, NODE_ENV, appAssets, deps, depsAtLoad, error,
                   mochaError, console, written, devServerStarts,
                   watching, changes>>

\* The run started by b has completed, successfully or not.
WatchRunDone(b) ==
    /\ wstate[b] = "running"
    /\ st[b][Bound(b)] \in Settled
    /\ wstate' = [wstate EXCEPT ![b] = OnRunDone(pending[b])]
    /\ st' = [st EXCEPT ![b] = [n \in Nodes |-> "idle"]]
    /\ error' = [error EXCEPT ![b] = [n \in Nodes |-> {}]]
    /\ mochaError' = [mochaError EXCEPT ![b] = FALSE]
    /\ UNCHANGED <<invocation, NODE_ENV, appAssets, deps, depsAtLoad, depsRead,
                   console, written, devServerStarts, watching, pending, dirty,
                   changes>>

(***************************************************************************)
(* Specification                                                           *)
(***************************************************************************)
Next ==
    \/ gulpStart
    \/ \E c \in Contexts : buildMainHtml(c)
    \/ \E c \in Contexts : buildAllScripts(c)
    \/ \E c \in Contexts : buildAppAssets(c)
    \/ \E c \in Contexts : buildDevAppConfig(c)
    \/ \E c \in Contexts : buildVendorStyles(c)
    \/ \E c \in Contexts : buildVendorFonts(c)
    \/ \E c \in Contexts : test(c)
    \/ \E c \in Contexts : setupDevServer(c)
    \/ \E c \in Contexts : setupWatchers(c)
    \/ \E c \in Contexts, n \in Groups : SettleParallel(c, n)
    \/ \E c \in Contexts, n \in Groups : AdvanceSequence(c, n)
    \/ \E b \in Bindings : FileChange(b)
    \/ \E b \in Bindings : Debounce(b)
    \/ \E b \in Bindings : WatchRunDone(b)

Spec == Init /\ [][Next]_vars

\* The steps a run of build or of test can take: no watcher is ever created.
NextBuild ==
    \/ gulpStart
    \/ buildMainHtml("cli")
    \/ buildAllScripts("cli")
    \/ buildAppAssets("cli")
    \/ buildDevAppConfig("cli")
    \/ buildVendorStyles("cli")
    \/ buildVendorFonts("cli")
    \/ test("cli")
    \/ SettleParallel("cli", "build")
    \/ FileChange("depsJson")

SpecBuild == InitBuild /\ [][NextBuild]_vars

\* Exit status of the gulp process once the requested task has settled.
ExitStatus == IF st["cli"][invocation] = "failed" THEN 1 ELSE 0

\* Number of executions of leaf task t in flight, over all contexts.
InFlight(t) == Cardinality({c \in Contexts : st[c][t] = "running"})

\* Leaf tasks reachable from a watch binding.
WatchBound == UNION {StartSet(Bound(b)) : b \in Bindings} \cap Leaves

(***************************************************************************)
(* Properties                                                              *)
(***************************************************************************)

\* C1: in a dev run build, test, setupDevServer, setupWatchers start in this
\* order, each only after the previous ones have settled; the dev server is
\* started at most once and not before all six leaves of build have settled.
DevStartsInOrder ==
    LET order == <<"build", "test", "setupDevServer", "setupWatchers">> IN
    /\ \A i \in 1..4 : st["cli"][order[i]] # "idle" =>
            \A j \in 1..(i - 1) : st["cli"][order[j]] \in Settled
    /\ devServerStarts <= 1
    /\ (st["cli"]["setupDevServer"] # "idle" \/ devServerStarts > 0) =>
            \A t \in BuildLeaves : st["cli"][t] \in Settled

DevCompleted ==
    /\ st["cli"]["dev"] = "ok"
    /\ devServerStarts = 1
    /\ watching

\* C2: build is a parallel group of the six leaf tasks: once it has started
\* all six have started, whatever the others' progress, and it is reported
\* complete only when all six have settled.
BuildRunsSixInParallel ==
    LET six == {"buildMainHtml", "buildAllScripts", "buildAppAssets",
                "buildDevAppConfig", "buildVendorStyles", "buildVendorFonts"} IN
    /\ Members("build") = six
    /\ st["cli"]["build"] # "idle" => \A t \in six : st["cli"][t] # "idle"
    /\ st["cli"]["build"] \in Settled => \A t \in six : st["cli"][t] \in Settled

BuildCompletedOutOfOrder ==
    /\ invocation = "build"
    /\ st["cli"]["build"] = "running"
    /\ st["cli"]["buildVendorFonts"] \in Settled
    /\ st["cli"]["buildMainHtml"] = "running"

\* C3: when a member of the dev sequence fails, the members before it have
\* succeeded, the members after it are never started and the error reported
\* for dev is the error of that member; if build fails, test, setupDevServer
\* and setupWatchers never start.
SequenceStopsAtFailure ==
    LET order == <<"build", "test", "setupDevServer", "setupWatchers">> IN
    /\ st["cli"]["dev"] = "failed" =>
         \E i \in 1..4 :
            /\ st["cli"][order[i]] = "failed"
            /\ \A j \in 1..(i - 1) : st["cli"][order[j]] = "ok"
            /\ \A j \in (i + 1)..4 : st["cli"][order[j]] = "idle"
            /\ error["cli"]["dev"] = error["cli"][order[i]]
            /\ error["cli"]["dev"] # {}
    /\ (invocation = "dev" /\ st["cli"]["build"] = "failed") =>
            /\ \A j \in 2..4 : st["cli"][order[j]] = "idle"
            /\ devServerStarts = 0
            /\ ~watching

DevFailedAtBuild ==
    /\ st["cli"]["dev"] = "failed"
    /\ st["cli"]["build"] = "failed"

\* C4: a parallel group (build, and the groups bound by setupWatchers) is
\* not reported before all its members have settled, and its failure names
\* every member that failed.
ParallelWaitsAndAggregates ==
    \A c \in Contexts : \A n \in {"build", "watchAppScripts", "watchDeps"} :
        st[c][n] \in Settled =>
            /\ \A m \in Members(n) : st[c][m] \in Settled
            /\ error[c][n] = {m \in Members(n) : st[c][m] = "failed"}
            /\ (st[c][n] = "failed") = (\E m \in Members(n) : st[c][m] = "failed")

TwoMembersFailed ==
    /\ st["depsJson"]["watchDeps"] = "failed"
    /\ Cardinality(error["depsJson"]["watchDeps"]) >= 2

\* C5: a build or test invocation in which a build leaf fails or the test
\* runner emits an error exits with a non-zero status and names the failing
\* task.
LeafFailureFailsInvocation ==
    ( /\ invocation \in {"build", "test"}
      /\ st["cli"][invocation] \in Settled
      /\ \/ \E t \in BuildLeaves : st["cli"][t] = "failed"
         \/ mochaError["cli"] )
    => /\ ExitStatus # 0
       /\ error["cli"][invocation] # {}

\* C6: once the watchers are set up, at most one execution of each task
\* bound to a watch is in flight.
OneExecutionPerWatchedTask ==
    watching => \A t \in WatchBound : InFlight(t) <= 1

\* C7: for every watch binding, a change arriving while the bound task runs
\* starts no execution while that run is in flight, and on its completion
\* exactly one further run is scheduled: a run starts only from the
\* triggered state with a change not yet served, and a binding is never back
\* at rest with a change unserved.
ChangeWhileRunningRunsOnceMore ==
    /\ [](\A b \in Bindings :
            /\ wstate[b] = "idle" => (~dirty[b] /\ ~pending[b])
            /\ pending[b] => (dirty[b] /\ wstate[b] # "idle"))
    /\ [][\A b \in Bindings :
            /\ (\E n \in Nodes : st[b][n] # "running" /\ st'[b][n] = "running")
                => /\ wstate[b] = "triggered"
                   /\ dirty[b]
                   /\ \A n \in Nodes : st[b][n] = "idle"
            /\ (wstate[b] = "running" /\ wstate'[b] # "running")
                => wstate'[b] = IF dirty[b] THEN "triggered" ELSE "idle"]_vars

RerunScheduledAfterCompletion ==
    \E b \in Bindings : wstate[b] = "triggered" /\ pending[b]

\* C8: buildDevAppConfig never fails, whatever throws inside it, so a build
\* whose other five leaves succeed succeeds.
AppConfigNeverFailsBuild ==
    \A c \in Contexts :
        /\ st[c]["buildDevAppConfig"] # "failed"
        /\ "buildDevAppConfig" \notin error[c]["build"]
        /\ ( /\ st[c]["build"] \in Settled
             /\ \A t \in BuildLeaves \ {"buildDevAppConfig"} : st[c][t] = "ok" )
           => st[c]["build"] = "ok"

AppConfigThrewAndBuildSucceeded ==
    /\ "Error building app config" \in console
    /\ st["cli"]["build"] = "ok"

\* C9: a run of buildAllScripts, buildVendorStyles or buildVendorFonts works
\* from the content deps.json has when the run starts: in a rebuild started
\* after the last change of deps.json, the manifest in use is the file's
\* content.
RebuildUsesChangedManifest ==
    (wstate["depsJson"] = "running" /\ ~dirty["depsJson"]) =>
        \A t \in ManifestConsumers :
            st["depsJson"][t] # "idle" => depsRead["depsJson"][t] = deps

\* C10: no output path is written by two leaf tasks.
OutputPathsDisjoint ==
    \A x \in written : \A y \in written : x[2] = y[2] => x[1] = y[1]

====
